---- MODULE Spec2Model ----
(***************************************************************************)
(* DaYuanNetwork (flow/networks/da_yuan.py): a corridor of four signalised *)
(* intersections with six boundary points.  The network object holds a few *)
(* attributes set by __init__; specify_nodes, specify_edges,               *)
(* specify_connections and specify_routes build their results from         *)
(* scratch on every call.                                                  *)
(*                                                                         *)
(* Numbers written as decimal literals in the source (0.1, 6.2) are kept   *)
(* exactly, as <<numerator, denominator>>.  Strings built with format()    *)
(* and str() are built here with \o and ToString.                          *)
(***************************************************************************)
EXTENDS Integers, Sequences, FiniteSets, TLC

\* Two network objects exist side by side.
Instances == {1, 2}

\* The longest sequence of specify_* calls explored.
MaxCalls == 6

\* da_yuan.py:44
section_length == 100

VARIABLES
    inst,        \* inst[i]: the attributes __init__ sets on network object i
    route_decl,  \* the (path, weight) literals written in specify_routes
    conn_decl,   \* the new_con(...) argument lists written in specify_connections
    ret,         \* ret[i]: what each specify_* call on object i returned last
    first,       \* first[i]: what each specify_* call on object i returned first
    called,      \* called[i]: the specify_* methods called on object i so far
    raised,      \* raised[i][op]: the exception the last call of op on object i
                 \* ended with, as <<class name, argument>>; <<>> when it returned
    ncalls       \* the number of specify_* calls made so far

vars == <<inst, route_decl, conn_decl, ret, first, called, raised, ncalls>>

----------------------------------------------------------------------------
\* Python values

\* {} and [] ; a dict is a function from its keys.
EmptyDict == <<>>

\* d[k] = v
DictSet(d, k, v) ==
    [x \in (DOMAIN d) \cup {k} |-> IF x = k THEN v ELSE d[x]]

\* "inner{}".format(i), "out{}_{}".format(index, lane), str(n)
str(n) == ToString(n)

----------------------------------------------------------------------------
\* __init__ (the attributes it sets before calling the parent constructor)

\* net_params.additional_params.get("traffic_lights", True)
DaYuanNetwork(traffic_lights) ==
    [ use_traffic_lights |-> traffic_lights,
      inner_nodes_radius |-> <<62, 10>>,
      num_edges          |-> 8,
      name               |-> "BobLoblawsLawBlog" ]

----------------------------------------------------------------------------
\* Nodes

RECURSIVE inner_nodes_loop(_, _, _)
\* for i in range(4): nodes.append({...})
inner_nodes_loop(self, i, nodes) ==
    IF i >= 4 THEN nodes
    ELSE inner_nodes_loop(self, i + 1,
            Append(nodes,
                   [ id     |-> "inner" \o str(i),
                     x      |-> (i + 1) * section_length,
                     y      |-> 0,
                     type   |-> IF self.use_traffic_lights
                                THEN "traffic_light" ELSE "priority",
                     radius |-> self.inner_nodes_radius ]))

\* A list kept on the object and extended on every call.
_inner_nodes_accumulating(i) ==
    inner_nodes_loop(inst[i], 0, ret[i].nodes)

\* the property _inner_nodes of object i
_inner_nodes(i) ==
    inner_nodes_loop(inst[i], 0, <<>>)

new_node(x, y, name) ==
    << [ id |-> name, x |-> x, y |-> y, type |-> "priority" ] >>

\* The last boundary node is given the id of the one before it.
_outer_nodes_repeated_id ==
       new_node(0, 0, "out0")
    \o new_node(section_length, section_length, "out1")
    \o new_node(2 * section_length, section_length, "out2")
    \o new_node(3 * section_length, section_length, "out3")
    \o new_node(4 * section_length, section_length, "out4")
    \o new_node(5 * section_length, 0, "out4")

\* the property _outer_nodes
_outer_nodes ==
       new_node(0, 0, "out0")
    \o new_node(section_length, section_length, "out1")
    \o new_node(2 * section_length, section_length, "out2")
    \o new_node(3 * section_length, section_length, "out3")
    \o new_node(4 * section_length, section_length, "out4")
    \o new_node(5 * section_length, 0, "out5")

----------------------------------------------------------------------------
\* Edges

\* The endpoints named after the docstring's "center{index}" scheme.
inner_new_edge_center(index, from_node, to_node, orientation, lane) ==
    << [ id       |-> "inner" \o str(index) \o "_" \o str(lane),
         priority |-> 78,
         from     |-> "center" \o str(from_node),
         to       |-> "center" \o str(to_node),
         length   |-> section_length ] >>

inner_new_edge(index, from_node, to_node, orientation, lane) ==
    << [ id       |-> "inner" \o str(index) \o "_" \o str(lane),
         priority |-> 78,
         from     |-> "inner" \o str(from_node),
         to       |-> "inner" \o str(to_node),
         length   |-> section_length ] >>

RECURSIVE inner_edges_loop(_, _)
\* for i in range(3): two edges, one per direction
inner_edges_loop(i, edges) ==
    IF i >= 3 THEN edges
    ELSE inner_edges_loop(i + 1,
               edges
            \o inner_new_edge(i, i, i + 1, "horizontal", 0)
            \o inner_new_edge(i, i + 1, i, "horizontal", 1))

\* the property _inner_edges
_inner_edges == inner_edges_loop(0, <<>>)

outer_new_edge(index, from_node, to_node, orientation, lane) ==
    << [ id       |-> "out" \o str(index) \o "_" \o str(lane),
         priority |-> 78,
         from     |-> from_node,
         to       |-> to_node,
         length   |-> section_length ] >>

\* the property _outer_edges
_outer_edges ==
       outer_new_edge(0, "out0", "inner0", "horizontal", 0)
    \o outer_new_edge(0, "inner0", "out0", "horizontal", 1)
    \o outer_new_edge(1, "out1", "inner0", "vertical", 0)
    \o outer_new_edge(1, "inner0", "out1", "vertical", 1)
    \o outer_new_edge(2, "out2", "inner1", "vertical", 0)
    \o outer_new_edge(2, "inner1", "out2", "vertical", 1)
    \o outer_new_edge(3, "out3", "inner2", "vertical", 0)
    \o outer_new_edge(3, "inner2", "out3", "vertical", 1)
    \o outer_new_edge(4, "out4", "inner3", "vertical", 0)
    \o outer_new_edge(4, "inner3", "out4", "vertical", 1)
    \o outer_new_edge(5, "out5", "inner3", "horizontal", 1)
    \o outer_new_edge(5, "inner3", "out5", "horizontal", 0)

----------------------------------------------------------------------------
\* Connections

\* The two edge ids stored under each other's key.
new_con_swapped(from_id, to_id, lane, signal_group) ==
    << [ from         |-> to_id,
         to           |-> from_id,
         fromLane     |-> str(lane - 1),
         toLane       |-> str(lane - 1),
         signal_group |-> signal_group ] >>

new_con(from_id, to_id, lane, signal_group) ==
    << [ from         |-> from_id,
         to           |-> to_id,
         fromLane     |-> str(lane - 1),
         toLane       |-> str(lane - 1),
         signal_group |-> signal_group ] >>

\* The argument lists of the new_con(...) calls that build one conn list,
\* one definition per con_dict[...] = conn group.
conn_inner0 ==
    << <<"out0_0", "out1_1", 1, 1>>,
       <<"out0_0", "inner0_0", 1, 1>>,
       <<"out1_0", "out0_1", 1, 1>>,
       <<"out1_0", "inner0_0", 1, 1>>,
       <<"inner0_1", "out0_1", 1, 1>>,
       <<"inner0_1", "out1_1", 1, 1>> >>

\* The movement from out2_0 onto inner0_1 left out.
conn_inner1_missing_turn ==
    << <<"inner0_0", "out2_1", 1, 1>>,
       <<"inner0_0", "inner1_0", 1, 1>>,
       <<"out2_0", "inner1_0", 1, 1>>,
       <<"inner1_1", "out2_1", 1, 1>>,
       <<"inner1_1", "inner0_1", 1, 1>> >>

conn_inner1 ==
    << <<"inner0_0", "out2_1", 1, 1>>,
       <<"inner0_0", "inner1_0", 1, 1>>,
       <<"out2_0", "inner0_1", 1, 1>>,
       <<"out2_0", "inner1_0", 1, 1>>,
       <<"inner1_1", "out2_1", 1, 1>>,
       <<"inner1_1", "inner0_1", 1, 1>> >>

conn_inner2 ==
    << <<"inner1_0", "out3_1", 1, 1>>,
       <<"inner1_0", "inner2_0", 1, 1>>,
       <<"out3_0", "inner1_1", 1, 1>>,
       <<"out3_0", "inner2_0", 1, 1>>,
       <<"inner2_1", "out3_1", 1, 1>>,
       <<"inner2_1", "inner1_1", 1, 1>> >>

\* The last movement turns out5_1 back onto out5_0 instead of onto inner2_1.
conn_inner3_u_turn ==
    << <<"inner2_0", "out4_1", 1, 1>>,
       <<"inner2_0", "out5_0", 1, 1>>,
       <<"out4_0", "inner2_1", 1, 1>>,
       <<"out4_0", "out5_0", 1, 1>>,
       <<"out5_1", "out4_1", 1, 1>>,
       <<"out5_1", "out5_0", 1, 1>> >>

conn_inner3 ==
    << <<"inner2_0", "out4_1", 1, 1>>,
       <<"inner2_0", "out5_0", 1, 1>>,
       <<"out4_0", "inner2_1", 1, 1>>,
       <<"out4_0", "out5_0", 1, 1>>,
       <<"out5_1", "out4_1", 1, 1>>,
       <<"out5_1", "inner2_1", 1, 1>> >>

\* The groups under the keys they are stored at.
ConnLiterals ==
    [ n \in {"inner0", "inner1", "inner2", "inner3"} |->
        CASE n = "inner0" -> conn_inner0
          [] n = "inner1" -> conn_inner1
          [] n = "inner2" -> conn_inner2
          [] n = "inner3" -> conn_inner3 ]

RECURSIVE conn_build(_, _, _)
\* conn = []; conn += new_con(...); conn += new_con(...); ...
conn_build(args, k, conn) ==
    IF k > Len(args) THEN conn
    ELSE conn_build(args, k + 1,
            conn \o new_con(args[k][1], args[k][2], args[k][3], args[k][4]))

RECURSIVE con_dict_build(_, _, _)
\* con_dict = {}; then one con_dict[node] = conn per group
con_dict_build(decl, todo, con_dict) ==
    IF todo = {} THEN con_dict
    ELSE LET n == CHOOSE m \in todo : TRUE
         IN  con_dict_build(decl, todo \ {n},
                 DictSet(con_dict, n, conn_build(decl[n], 1, <<>>)))

----------------------------------------------------------------------------
\* Routes

\* The (path, weight) tuples assigned to routes[...], one definition per
\* entry edge, weights as exact decimals: 0.1 is <<1, 10>>.
routes_out0_0 ==
    << << <<"out0_0", "out1_1">>, <<1, 10>> >>,
       << <<"out0_0", "inner0_0", "out2_1">>, <<1, 10>> >>,
       << <<"out0_0", "inner0_0", "inner1_0", "out3_1">>, <<1, 10>> >>,
       << <<"out0_0", "inner0_0", "inner1_0", "inner2_0", "out4_1">>, <<3, 10>> >>,
       << <<"out0_0", "inner0_0", "inner1_0", "inner2_0", "out5_0">>, <<4, 10>> >> >>

routes_out1_0 ==
    << << <<"out1_0", "out0_1">>, <<1, 10>> >>,
       << <<"out1_0", "inner0_0", "out2_1">>, <<1, 10>> >>,
       << <<"out1_0", "inner0_0", "inner1_0", "out3_1">>, <<1, 10>> >>,
       << <<"out1_0", "inner0_0", "inner1_0", "inner2_0", "out4_1">>, <<3, 10>> >>,
       << <<"out1_0", "inner0_0", "inner1_0", "inner2_0", "out5_0">>, <<4, 10>> >> >>

routes_out2_0 ==
    << << <<"out2_0", "inner0_1", "out0_1">>, <<1, 10>> >>,
       << <<"out2_0", "inner0_1", "out1_1">>, <<1, 10>> >>,
       << <<"out2_0", "inner1_0", "out3_1">>, <<1, 10>> >>,
       << <<"out2_0", "inner1_0", "inner2_0", "out4_1">>, <<3, 10>> >>,
       << <<"out2_0", "inner1_0", "inner2_0", "out5_0">>, <<4, 10>> >> >>

\* The fourth path takes inner2_1 (the opposite direction) after out3_0.
routes_out3_0_wrong_direction ==
    << << <<"out3_0", "inner1_1", "inner0_1", "out0_1">>, <<1, 10>> >>,
       << <<"out3_0", "inner1_1", "inner0_1", "out1_1">>, <<1, 10>> >>,
       << <<"out3_0", "inner1_1", "out2_1">>, <<1, 10>> >>,
       << <<"out3_0", "inner2_1", "out4_1">>, <<3, 10>> >>,
       << <<"out3_0", "inner2_0", "out5_0">>, <<4, 10>> >> >>

routes_out3_0 ==
    << << <<"out3_0", "inner1_1", "inner0_1", "out0_1">>, <<1, 10>> >>,
       << <<"out3_0", "inner1_1", "inner0_1", "out1_1">>, <<1, 10>> >>,
       << <<"out3_0", "inner1_1", "out2_1">>, <<1, 10>> >>,
       << <<"out3_0", "inner2_0", "out4_1">>, <<3, 10>> >>,
       << <<"out3_0", "inner2_0", "out5_0">>, <<4, 10>> >> >>

\* The last path leaves by out4_1, back to where out4_0 came from.
routes_out4_0_back_to_origin ==
    << << <<"out4_0", "inner2_1", "inner1_1", "inner0_1", "out0_1">>, <<1, 10>> >>,
       << <<"out4_0", "inner2_1", "inner1_1", "inner0_1", "out1_1">>, <<1, 10>> >>,
       << <<"out4_0", "inner2_1", "inner1_1", "out2_1">>, <<1, 10>> >>,
       << <<"out4_0", "inner2_1", "out3_1">>, <<3, 10>> >>,
       << <<"out4_0", "out4_1">>, <<4, 10>> >> >>

routes_out4_0 ==
    << << <<"out4_0", "inner2_1", "inner1_1", "inner0_1", "out0_1">>, <<1, 10>> >>,
       << <<"out4_0", "inner2_1", "inner1_1", "inner0_1", "out1_1">>, <<1, 10>> >>,
       << <<"out4_0", "inner2_1", "inner1_1", "out2_1">>, <<1, 10>> >>,
       << <<"out4_0", "inner2_1", "out3_1">>, <<3, 10>> >>,
       << <<"out4_0", "out5_0">>, <<4, 10>> >> >>

\* The last weight written 0.3 instead of 0.2.
routes_out5_1_weight_typo ==
    << << <<"out5_1", "inner2_1", "inner1_1", "inner0_1", "out0_1">>, <<2, 10>> >>,
       << <<"out5_1", "inner2_1", "inner1_1", "inner0_1", "out1_1">>, <<2, 10>> >>,
       << <<"out5_1", "inner2_1", "inner1_1", "out2_1">>, <<2, 10>> >>,
       << <<"out5_1", "inner2_1", "out3_1">>, <<2, 10>> >>,
       << <<"out5_1", "out4_1">>, <<3, 10>> >> >>

routes_out5_1 ==
    << << <<"out5_1", "inner2_1", "inner1_1", "inner0_1", "out0_1">>, <<2, 10>> >>,
       << <<"out5_1", "inner2_1", "inner1_1", "inner0_1", "out1_1">>, <<2, 10>> >>,
       << <<"out5_1", "inner2_1", "inner1_1", "out2_1">>, <<2, 10>> >>,
       << <<"out5_1", "inner2_1", "out3_1">>, <<2, 10>> >>,
       << <<"out5_1", "out4_1">>, <<2, 10>> >> >>

\* The lists under the keys they are stored at.
RouteLiterals ==
    [ e \in {"out0_0", "out1_0", "out2_0", "out3_0", "out4_0", "out5_1"} |->
        CASE e = "out0_0" -> routes_out0_0
          [] e = "out1_0" -> routes_out1_0
          [] e = "out2_0" -> routes_out2_0
          [] e = "out3_0" -> routes_out3_0
          [] e = "out4_0" -> routes_out4_0
          [] e = "out5_1" -> routes_out5_1 ]

RECURSIVE routes_build(_, _, _)
\* routes = defaultdict(list); then one routes[entry] = [...] per entry edge
routes_build(decl, todo, routes) ==
    IF todo = {} THEN routes
    ELSE LET e == CHOOSE k \in todo : TRUE
         IN  routes_build(decl, todo \ {e}, DictSet(routes, e, decl[e]))

----------------------------------------------------------------------------
\* The four specify_* methods, as calls on network object i

Ops == {"nodes", "edges", "connections", "routes"}

NotCalled ==
    [ nodes |-> <<>>, edges |-> <<>>,
      connections |-> EmptyDict, routes |-> EmptyDict ]

\* The call returns value: no attribute of the object is assigned, no
\* exception is raised.
Return(i, op, value) ==
    /\ ncalls < MaxCalls
    /\ ncalls' = ncalls + 1
    /\ ret' = [ret EXCEPT ![i][op] = value]
    /\ first' = IF op \in called[i] THEN first
                ELSE [first EXCEPT ![i][op] = value]
    /\ called' = [called EXCEPT ![i] = @ \cup {op}]
    /\ raised' = [raised EXCEPT ![i][op] = <<>>]
    /\ UNCHANGED <<inst, route_decl, conn_decl>>

specify_nodes(i) ==
    Return(i, "nodes", _inner_nodes(i) \o _outer_nodes)

specify_edges(i) ==
    Return(i, "edges", _inner_edges \o _outer_edges)

specify_connections(i) ==
    Return(i, "connections",
           con_dict_build(conn_decl, DOMAIN conn_decl, EmptyDict))

specify_routes(i) ==
    Return(i, "routes",
           routes_build(route_decl, DOMAIN route_decl, EmptyDict))

----------------------------------------------------------------------------
\* Specifications

\* Every object is constructed with traffic_lights True or False; nothing
\* has been called yet.
InitObjects ==
    /\ inst \in [Instances -> {DaYuanNetwork(tl) : tl \in BOOLEAN}]
    /\ ret = [i \in Instances |-> NotCalled]
    /\ first = [i \in Instances |-> NotCalled]
    /\ called = [i \in Instances |-> {}]
    /\ raised = [i \in Instances |-> [op \in Ops |-> <<>>]]
    /\ ncalls = 0

Init ==
    /\ InitObjects
    /\ route_decl = RouteLiterals
    /\ conn_decl = ConnLiterals

Next ==
    \E i \in Instances :
        \/ specify_nodes(i)
        \/ specify_edges(i)
        \/ specify_connections(i)
        \/ specify_routes(i)

Spec == Init /\ [][Next]_vars

\* The same methods run on edited source text: one weight literal of
\* routes["out0_0"] rewritten as 0.35, or one edge id of a new_con(...) call
\* of the inner0 group rewritten as "inner9_0".  The methods treat their
\* literals the same way whatever they say.
EditWeight(decl, e, k, w) == [decl EXCEPT ![e][k][2] = w]

EditConnection(decl, n, k, end, id) == [decl EXCEPT ![n][k][end] = id]

RouteEdits ==
    {EditWeight(RouteLiterals, "out0_0", k, <<35, 100>>) :
        k \in 1..Len(RouteLiterals["out0_0"])}

ConnEdits ==
    {EditConnection(ConnLiterals, "inner0", k, end, "inner9_0") :
        k \in 1..Len(ConnLiterals["inner0"]), end \in {1, 2}}

InitEdited ==
    /\ InitObjects
    /\ \/ route_decl \in RouteEdits \cup {RouteLiterals} /\ conn_decl = ConnLiterals
       \/ route_decl = RouteLiterals /\ conn_decl \in ConnEdits

SpecEdited == InitEdited /\ [][Next]_vars

----------------------------------------------------------------------------
\* Reading the returned data

Range(seq) == {seq[k] : k \in 1..Len(seq)}

Ids(seq) == {x.id : x \in Range(seq)}

\* An interior node is one built by _inner_nodes: it carries a radius.
IsInterior(n) == "radius" \in DOMAIN n

InteriorIds(nodes) == {n.id : n \in {m \in Range(nodes) : IsInterior(m)}}

BoundaryIds(nodes) == {n.id : n \in {m \in Range(nodes) : ~IsInterior(m)}}

\* Object i has been asked for all of ops.
Has(i, ops) == ops \subseteq called[i]

RECURSIVE WeightSum(_, _)
\* The exact sum of the weights of entries[k..], as <<numerator, denominator>>.
WeightSum(entries, k) ==
    IF k > Len(entries) THEN <<0, 1>>
    ELSE LET w == entries[k][2]
             r == WeightSum(entries, k + 1)
         IN  <<w[1] * r[2] + r[1] * w[2], w[2] * r[2]>>

SumsToOne(entries) ==
    LET t == WeightSum(entries, 1) IN t[1] = t[2]

----------------------------------------------------------------------------
\* C1: every edge returned by specify_edges starts and ends at a node
\* returned by specify_nodes, whether the object was built with
\* traffic_lights True or False.
C1_EdgeEndpointsAreNodes ==
    \A i, j \in Instances :
        (Has(i, {"edges"}) /\ Has(j, {"nodes"})) =>
            \A e \in Range(ret[i].edges) :
                /\ e.from \in Ids(ret[j].nodes)
                /\ e.to \in Ids(ret[j].nodes)

\* Both kinds of object have returned their 18 edges and 10 nodes.
C1_Witness ==
    \E i, j \in Instances :
        /\ inst[i].use_traffic_lights /\ ~inst[j].use_traffic_lights
        /\ Has(i, {"nodes", "edges"}) /\ Has(j, {"nodes", "edges"})
        /\ Len(ret[i].edges) = 18 /\ Len(ret[j].nodes) = 10

\* C2: every connection listed under key n leads from an edge of
\* specify_edges that ends at n to an edge of specify_edges that starts at n.
C2_ConnectionsCrossTheirNode ==
    \A i, j \in Instances :
        (Has(i, {"connections"}) /\ Has(j, {"edges"})) =>
            \A n \in DOMAIN ret[i].connections :
                \A c \in Range(ret[i].connections[n]) :
                    /\ c.from \in Ids(ret[j].edges)
                    /\ c.to \in Ids(ret[j].edges)
                    /\ \A e \in Range(ret[j].edges) :
                          /\ e.id = c.from => e.to = n
                          /\ e.id = c.to => e.from = n

\* An object has returned its edges and a connection dictionary with
\* connections under every key.
C2_Witness ==
    \E i \in Instances :
        /\ Has(i, {"connections", "edges"})
        /\ DOMAIN ret[i].connections # {}
        /\ \A n \in DOMAIN ret[i].connections :
              Len(ret[i].connections[n]) > 0

\* C3: under every key of the route table each weight p has 0 < p <= 1 and
\* the weights, taken as exact decimals, sum to exactly 1.
C3_WeightsSumToOne ==
    \A i \in Instances :
        Has(i, {"routes"}) =>
            \A e \in DOMAIN ret[i].routes :
                /\ \A r \in Range(ret[i].routes[e]) :
                      /\ r[2][2] > 0
                      /\ 0 < r[2][1]
                      /\ r[2][1] <= r[2][2]
                /\ SumsToOne(ret[i].routes[e])

\* A route table has been returned that holds both weightings of the
\* source: 1+1+1+3+4 tenths and 2+2+2+2+2 tenths.
C3_Witness ==
    \E i \in Instances :
        /\ Has(i, {"routes"})
        /\ \E e \in DOMAIN ret[i].routes :
              \E r \in Range(ret[i].routes[e]) : r[2] = <<4, 10>>
        /\ \E e \in DOMAIN ret[i].routes :
              \A r \in Range(ret[i].routes[e]) : r[2] = <<2, 10>>

\* C4: every edge id on every path of the route table is the id of an edge
\* of specify_edges, and each edge of a path ends at the node where the
\* next edge of the path starts.
C4_PathsAreContiguous ==
    \A i, j \in Instances :
        (Has(i, {"routes"}) /\ Has(j, {"edges"})) =>
            \A k \in DOMAIN ret[i].routes :
                \A r \in Range(ret[i].routes[k]) :
                    LET path == r[1] IN
                    /\ \A m \in 1..Len(path) : path[m] \in Ids(ret[j].edges)
                    /\ \A m \in 1..(Len(path) - 1) :
                          \A a, b \in Range(ret[j].edges) :
                              (a.id = path[m] /\ b.id = path[m + 1])
                                  => a.to = b.from

\* Edges and a route table have been returned, the table with a path of
\* five edges (four joints to check).
C4_Witness ==
    \E i \in Instances :
        /\ Has(i, {"routes", "edges"})
        /\ \E k \in DOMAIN ret[i].routes :
              \E r \in Range(ret[i].routes[k]) : Len(r[1]) = 5

C9_RoutesReachEveryOtherExit ==
    \A i \in Instances :
        Has(i, {"routes", "edges", "nodes"}) =>
            LET routes   == ret[i].routes
                edges    == ret[i].edges
                boundary == BoundaryIds(ret[i].nodes)
                EdgeOf(id) == CHOOSE e \in Range(edges) : e.id = id
                Exit(r)  == EdgeOf(r[1][Len(r[1])]).to
            IN  /\ DOMAIN routes =
                       {e.id : e \in {x \in Range(edges) : x.from \in boundary}}
                /\ DOMAIN routes =
                       {"out0_0", "out1_0", "out2_0", "out3_0", "out4_0", "out5_1"}
                /\ \A k \in DOMAIN routes :
                      /\ \A r \in Range(routes[k]) :
                            /\ r[1][1] = k
                            /\ Exit(r) \in boundary
                      /\ {Exit(r) : r \in Range(routes[k])} =
                             boundary \ {EdgeOf(k).from}
                      /\ Cardinality(boundary \ {EdgeOf(k).from}) = 5
                      /\ \A a, b \in 1..Len(routes[k]) :
                            Exit(routes[k][a]) = Exit(routes[k][b]) => a = b

\* An object has returned nodes, edges and a route table with entries.
C9_Witness ==
    \E i \in Instances :
        /\ Has(i, {"routes", "edges", "nodes"})
        /\ \E k \in DOMAIN ret[i].routes : Len(ret[i].routes[k]) = 5

\* C10: the keys of the connection dictionary are the four interior nodes,
\* and the connections under node n are, without repetition, the pairs of an
\* edge into n and an edge out of n that does not lead back to where the
\* first came from: 3 x 2 = 6 per node, all from lane "0" to lane "0" in
\* signal group 1.
C10_ConnectionsAreAllNonUTurns ==
    \A i \in Instances :
        Has(i, {"connections", "edges", "nodes"}) =>
            LET con_dict == ret[i].connections
                edges    == Range(ret[i].edges)
            IN  /\ DOMAIN con_dict = InteriorIds(ret[i].nodes)
                /\ DOMAIN con_dict = {"inner0", "inner1", "inner2", "inner3"}
                /\ \A n \in DOMAIN con_dict :
                      LET into  == {e \in edges : e.to = n}
                          outof == {e \in edges : e.from = n}
                          moves == {<<c.from, c.to>> : c \in Range(con_dict[n])}
                      IN  /\ moves = {<<a.id, b.id>> :
                                         <<a, b>> \in {p \in into \X outof :
                                                          p[2].to # p[1].from}}
                          /\ Cardinality(into) = 3
                          /\ \A a \in into :
                                Cardinality({b \in outof : b.to # a.from}) = 2
                          /\ Len(con_dict[n]) = 6
                          /\ Cardinality(moves) = 6
                          /\ \A c \in Range(con_dict[n]) :
                                /\ c.fromLane = "0"
                                /\ c.toLane = "0"
                                /\ c.signal_group = 1

\* An object has returned nodes, edges and a connection dictionary with
\* connections in it.
C10_Witness ==
    \E i \in Instances :
        /\ Has(i, {"connections", "edges", "nodes"})
        /\ \E n \in DOMAIN ret[i].connections :
              Len(ret[i].connections[n]) > 0

C11_RoutesUseExactlyTheConnections ==
    \A i \in Instances :
        Has(i, {"routes", "connections", "edges"}) =>
            LET routes   == ret[i].routes
                con_dict == ret[i].connections
                edges    == Range(ret[i].edges)
                paths    == {r[1] : r \in UNION {Range(routes[k]) : k \in DOMAIN routes}}
                Joints(path) == {<<path[m], path[m + 1]>> : m \in 1..(Len(path) - 1)}
            IN  /\ \A path \in paths :
                      \A m \in 1..(Len(path) - 1) :
                          \E e \in edges :
                              /\ e.id = path[m]
                              /\ e.to \in DOMAIN con_dict
                              /\ \E c \in Range(con_dict[e.to]) :
                                    /\ c.from = path[m]
                                    /\ c.to = path[m + 1]
                /\ \A n \in DOMAIN con_dict :
                      \A c \in Range(con_dict[n]) :
                          \E path \in paths : <<c.from, c.to>> \in Joints(path)

\* An object has returned edges, a connection dictionary with connections
\* in it and a route table with a path of five edges.
C11_Witness ==
    \E i \in Instances :
        /\ Has(i, {"routes", "connections", "edges"})
        /\ \E n \in DOMAIN ret[i].connections :
              Len(ret[i].connections[n]) = 6
        /\ \E k \in DOMAIN ret[i].routes :
              \E r \in Range(ret[i].routes[k]) : Len(r[1]) = 5

\* C12: the num_edges attribute of an object equals the number of edges its
\* specify_edges returns.
C12_NumEdgesIsEdgeCount ==
    \A i \in Instances :
        Has(i, {"edges"}) => inst[i].num_edges = Len(ret[i].edges)

====
